---- MODULE Spec2Model ----
(***************************************************************************)
(* The Game Boy motherboard of pyboy/core/mb.py: the memory bus (getitem,  *)
(* setitem, transfer_DMA), the tick loop, the serial buffer, the joypad    *)
(* bridge and save_state/load_state.  The motherboard object is the record *)
(* mb; the peripherals it owns are fields of that record.  Byte arrays are *)
(* kept as finite maps from index to non-zero byte: an index outside the   *)
(* map holds 0, the value every array is created with.                     *)
(***************************************************************************)
EXTENDS Integers, Sequences, FiniteSets, TLC

VARIABLES
    mb,         \* the Motherboard object and the peripherals it owns
    f,          \* the save-state stream last written by save_state
    tk,         \* the tick call in progress: its position and its locals
    ret,        \* what the last completed operation returned or raised
    hist,       \* history of the run (what was written, returned, executed)
    ops         \* number of host operations started

vars == <<mb, f, tk, ret, hist, ops>>

-----------------------------------------------------------------------------
(* Bounds of the model *)

MaxOps == 3
MaxSetup == 2
NumRomBanks == 3
NumRamBanks == 2

-----------------------------------------------------------------------------
(* Program constants *)

STATE_VERSION == 6
INTR_VBLANK == 1
INTR_LCDC == 2
INTR_TIMER == 4
INTR_SERIAL == 8
INTR_HIGHTOLOW == 16
HALTED == 0 - 1

-----------------------------------------------------------------------------
(* Bytes and byte arrays *)

Min(a, b) == IF a < b THEN a ELSE b

\* bitwise and / or of two naturals, bit by bit
RECURSIVE BitAnd(_, _)
BitAnd(a, b) ==
    IF a = 0 \/ b = 0 THEN 0
    ELSE (IF a % 2 = 1 /\ b % 2 = 1 THEN 1 ELSE 0) + 2 * BitAnd(a \div 2, b \div 2)

RECURSIVE BitOr(_, _)
BitOr(a, b) ==
    IF a = 0 THEN b
    ELSE IF b = 0 THEN a
    ELSE (IF a % 2 = 1 \/ b % 2 = 1 THEN 1 ELSE 0) + 2 * BitOr(a \div 2, b \div 2)

\* an array all of whose cells hold 0
Zeros == [j \in {} |-> 0]

\* arr[i]
Get(arr, i) == IF i \in DOMAIN arr THEN arr[i] ELSE 0

\* arr[i] = v (@@ builds the new map at once)
Put(arr, i, v) ==
    IF v = 0
    THEN IF i \in DOMAIN arr
         THEN [j \in DOMAIN arr \ {i} |-> arr[j]] @@ Zeros
         ELSE arr
    ELSE IF i \in DOMAIN arr
    THEN [arr EXCEPT ![i] = v]
    ELSE (i :> v) @@ arr

-----------------------------------------------------------------------------
(* The peripherals, as far as the motherboard uses them *)

\* bootrom.getitem(i): the boot ROM image
BootByte(i) == 255 - (i % 256)

\* the cartridge's ROM image, bank by bank
RomByte(bank, off) == (off + 64 * bank) % 251

cartridge_getitem(c, i) ==
    IF i < \h4000 THEN RomByte(0, i)
    ELSE IF i < \h8000 THEN RomByte(c.rombank_selected, i - \h4000)
    ELSE Get(c.rambanks, <<c.rambank_selected, i - \hA000>>)

cartridge_setitem(c, i, value) ==
    IF i < \h2000 THEN c
    ELSE IF i < \h4000
    THEN [c EXCEPT !.rombank_selected =
              IF value % NumRomBanks = 0 THEN 1 ELSE value % NumRomBanks]
    ELSE IF i < \h6000
    THEN [c EXCEPT !.rambank_selected = value % NumRamBanks]
    ELSE IF i < \h8000 THEN c
    ELSE [c EXCEPT !.rambanks = Put(@, <<c.rambank_selected, i - \hA000>>, value)]

\* interaction.pull(value): the joypad byte for the select lines in value
interaction_pull(it, value) ==
    LET P15 == (value \div 32) % 2
        byte == BitOr(value, 207)
    IN  IF P15 = 0 /\ (value \div 16) % 2 = 1 /\ it.a_pressed
        THEN byte - 1
        ELSE byte

\* interaction.key_event(key): the new state, and whether a line went high to low
interaction_key_event(it, key) ==
    IF key = "press_a"
    THEN [it |-> [it EXCEPT !.a_pressed = TRUE], hitolo |-> ~it.a_pressed]
    ELSE [it |-> [it EXCEPT !.a_pressed = FALSE], hitolo |-> FALSE]

sound_get(s, off) == Get(s.regs, off)

sound_set(s, off, value) == [s EXCEPT !.regs = Put(@, off, value)]

timer_reset(t) == [t EXCEPT !.DIV = 0]

\* cpu.set_interruptflag(flag)
set_interruptflag(c, flag) ==
    [c EXCEPT !.interrupts_flag_register = BitOr(@, flag)]

-----------------------------------------------------------------------------
(* Motherboard.__init__ *)

InitMB(snd, bp) ==
    [ bootrom_enabled |-> TRUE,
      sound_enabled |-> snd,
      serialbuffer |-> << >>,
      breakpoints_enabled |-> bp,
      breakpoints_list |-> << <<0, 72>>, <<0, 80>>, <<0, 64>> >>,
      cpu |-> [PC |-> 0, interrupts_flag_register |-> 0,
               interrupts_enabled_register |-> 0],
      timer |-> [DIV |-> 0, TIMA |-> 0, TMA |-> 0, TAC |-> 0],
      lcd |-> [VRAM |-> Zeros, OAM |-> Zeros, LCDC |-> 0, STAT |-> 0, SCY |-> 0,
               SCX |-> 0, LY |-> 0, LYC |-> 0, BGP |-> 252, OBP0 |-> 255,
               OBP1 |-> 255, WY |-> 0, WX |-> 0],
      renderer |-> [tiles_changed |-> {}, clearcache |-> FALSE,
                    render_screen_calls |-> 0],
      ram |-> [internal_ram0 |-> Zeros, non_io_internal_ram0 |-> Zeros,
               io_ports |-> Zeros, non_io_internal_ram1 |-> Zeros,
               internal_ram1 |-> Zeros],
      cartridge |-> [rombank_selected |-> 1, rambank_selected |-> 0,
                     rambanks |-> Zeros, stopped |-> FALSE],
      sound |-> [regs |-> Zeros, clock |-> 0, syncs |-> 0, stopped |-> FALSE],
      interaction |-> [a_pressed |-> FALSE],
      exc |-> "none" ]

-----------------------------------------------------------------------------
(* MemoryManager *)

\* the addresses getitem and setitem accept
InBus(i) == 0 <= i /\ i < \h10000

RECURSIVE getitem(_, _)

\* getitem_rom0 with the boot ROM one byte short
getitem_rom0_short(m, i) ==
    IF i < \hFF /\ m.bootrom_enabled
    THEN BootByte(i)
    ELSE cartridge_getitem(m.cartridge, i)

\* getitem, 16kB ROM bank #0: the boot ROM shadows the first 256 bytes
getitem_rom0(m, i) ==
    IF i <= \hFF /\ m.bootrom_enabled
    THEN BootByte(i)
    ELSE cartridge_getitem(m.cartridge, i)

\* getitem_echo redirected to the wrong half of internal RAM
getitem_echo_half(m, i) == getitem(m, i - \h1000)

\* getitem, echo of 8kB internal RAM
getitem_echo(m, i) == getitem(m, i - \h2000)

\* getitem, I/O ports
getitem_io(m, i) ==
    IF i = \hFF04 THEN m.timer.DIV
    ELSE IF i = \hFF05 THEN m.timer.TIMA
    ELSE IF i = \hFF06 THEN m.timer.TMA
    ELSE IF i = \hFF07 THEN m.timer.TAC
    ELSE IF i = \hFF0F THEN m.cpu.interrupts_flag_register
    ELSE IF \hFF10 <= i /\ i < \hFF40
    THEN IF m.sound_enabled THEN sound_get(m.sound, i - \hFF10) ELSE 0
    ELSE IF i = \hFF40 THEN m.lcd.LCDC
    ELSE IF i = \hFF41 THEN m.lcd.STAT
    ELSE IF i = \hFF42 THEN m.lcd.SCY
    ELSE IF i = \hFF43 THEN m.lcd.SCX
    ELSE IF i = \hFF44 THEN m.lcd.LY
    ELSE IF i = \hFF45 THEN m.lcd.LYC
    ELSE IF i = \hFF46 THEN 0
    ELSE IF i = \hFF47 THEN m.lcd.BGP
    ELSE IF i = \hFF48 THEN m.lcd.OBP0
    ELSE IF i = \hFF49 THEN m.lcd.OBP1
    ELSE IF i = \hFF4A THEN m.lcd.WY
    ELSE IF i = \hFF4B THEN m.lcd.WX
    ELSE Get(m.ram.io_ports, i - \hFF00)

\* Motherboard.getitem(i), for an address on the bus (InBus); any other
\* address raises IndexError
getitem(m, i) ==
    IF 0 <= i /\ i < \h4000 THEN getitem_rom0(m, i)
    ELSE IF \h4000 <= i /\ i < \h8000 THEN cartridge_getitem(m.cartridge, i)
    ELSE IF \h8000 <= i /\ i < \hA000 THEN Get(m.lcd.VRAM, i - \h8000)
    ELSE IF \hA000 <= i /\ i < \hC000 THEN cartridge_getitem(m.cartridge, i)
    ELSE IF \hC000 <= i /\ i < \hE000 THEN Get(m.ram.internal_ram0, i - \hC000)
    ELSE IF \hE000 <= i /\ i < \hFE00 THEN getitem_echo(m, i)
    ELSE IF \hFE00 <= i /\ i < \hFEA0 THEN Get(m.lcd.OAM, i - \hFE00)
    ELSE IF \hFEA0 <= i /\ i < \hFF00 THEN Get(m.ram.non_io_internal_ram0, i - \hFEA0)
    ELSE IF \hFF00 <= i /\ i < \hFF4C THEN getitem_io(m, i)
    ELSE IF \hFF4C <= i /\ i < \hFF80 THEN Get(m.ram.non_io_internal_ram1, i - \hFF4C)
    ELSE IF \hFF80 <= i /\ i < \hFFFF THEN Get(m.ram.internal_ram1, i - \hFF80)
    ELSE m.cpu.interrupts_enabled_register

\* Motherboard.setitem(i, value) and Motherboard.transfer_DMA(src).  An
\* exception already raised (m.exc) propagates: nothing more is done.
RECURSIVE setitem(_, _, _)
RECURSIVE transfer_DMA_rounds(_, _, _, _)

\* transfer_DMA_round reading one byte further than it should
transfer_DMA_round_shifted(m, src, n) ==
    IF m.exc # "none" THEN m
    ELSE IF ~InBus(n + 1 + src * \h100) THEN [m EXCEPT !.exc = "IndexError"]
    ELSE setitem(m, \hFE00 + n, getitem(m, n + 1 + src * \h100))

\* one round of the loop of transfer_DMA
transfer_DMA_round(m, src, n) ==
    IF m.exc # "none" THEN m
    ELSE IF ~InBus(n + src * \h100) THEN [m EXCEPT !.exc = "IndexError"]
    ELSE setitem(m, \hFE00 + n, getitem(m, n + src * \h100))

\* the rounds lo .. hi - 1 of the loop of transfer_DMA, in order (the range
\* is halved so that the evaluation does not nest 160 deep)
transfer_DMA_rounds(m, src, lo, hi) ==
    IF hi <= lo THEN m
    ELSE IF hi = lo + 1 THEN transfer_DMA_round(m, src, lo)
    ELSE LET mid == (lo + hi) \div 2
             first == transfer_DMA_rounds(m, src, lo, mid)
         IN  IF first.exc # "none" THEN first
             ELSE transfer_DMA_rounds(first, src, mid, hi)

\* transfer_DMA that does nothing for a source in the echo or above
transfer_DMA_low_only(m, src) ==
    IF src >= \hE0 THEN m ELSE transfer_DMA_rounds(m, src, 0, \hA0)

transfer_DMA(m, src) == transfer_DMA_rounds(m, src, 0, \hA0)

\* setitem, 8kB video RAM
setitem_vram(m, i, value) ==
    [m EXCEPT !.lcd.VRAM = Put(@, i - \h8000, value),
              !.renderer.tiles_changed =
                  IF i < \h9800 THEN @ \cup {i - (i % 16)} ELSE @]

\* setitem, echo of 8kB internal RAM
setitem_echo(m, i, value) == setitem(m, i - \h2000, value)

\* tac_value without the mask
tac_value_unmasked(value) == value

\* the value a write to TAC stores
tac_value(value) == BitAnd(value, 7)

\* setitem_div that stores the byte in the divider
setitem_div_stored(m, value) == [m EXCEPT !.timer.DIV = value]

\* setitem, the divider register
setitem_div(m, value) == [m EXCEPT !.timer = timer_reset(@)]

\* setitem_sound that keeps the byte in the I/O mirror when there is no sound
setitem_sound_mirrored(m, i, value) ==
    IF m.sound_enabled
    THEN [m EXCEPT !.sound = sound_set(@, i - \hFF10, value)]
    ELSE [m EXCEPT !.ram.io_ports = Put(@, i - \hFF00, value)]

\* setitem, the sound registers
setitem_sound(m, i, value) ==
    IF m.sound_enabled
    THEN [m EXCEPT !.sound = sound_set(@, i - \hFF10, value)]
    ELSE m

\* setitem, I/O ports
setitem_io(m, i, value) ==
    IF i = \hFF00
    THEN [m EXCEPT !.ram.io_ports =
                       Put(@, i - \hFF00, interaction_pull(m.interaction, value))]
    ELSE IF i = \hFF01
    THEN [m EXCEPT !.serialbuffer = Append(@, value),
                   !.ram.io_ports = Put(@, i - \hFF00, value)]
    ELSE IF i = \hFF04 THEN setitem_div(m, value)
    ELSE IF i = \hFF05 THEN [m EXCEPT !.timer.TIMA = value]
    ELSE IF i = \hFF06 THEN [m EXCEPT !.timer.TMA = value]
    ELSE IF i = \hFF07 THEN [m EXCEPT !.timer.TAC = tac_value(value)]
    ELSE IF i = \hFF0F THEN [m EXCEPT !.cpu.interrupts_flag_register = value]
    ELSE IF \hFF10 <= i /\ i < \hFF40 THEN setitem_sound(m, i, value)
    ELSE IF i = \hFF40 THEN [m EXCEPT !.lcd.LCDC = value]
    ELSE IF i = \hFF41 THEN [m EXCEPT !.lcd.STAT = value]
    ELSE IF i = \hFF42 THEN [m EXCEPT !.lcd.SCY = value]
    ELSE IF i = \hFF43 THEN [m EXCEPT !.lcd.SCX = value]
    ELSE IF i = \hFF44 THEN [m EXCEPT !.lcd.LY = value]
    ELSE IF i = \hFF45 THEN [m EXCEPT !.lcd.LYC = value]
    ELSE IF i = \hFF46 THEN transfer_DMA(m, value)
    ELSE IF i = \hFF47
    THEN [m EXCEPT !.renderer.clearcache = @ \/ (m.lcd.BGP # value),
                   !.lcd.BGP = value]
    ELSE IF i = \hFF48
    THEN [m EXCEPT !.renderer.clearcache = @ \/ (m.lcd.OBP0 # value),
                   !.lcd.OBP0 = value]
    ELSE IF i = \hFF49
    THEN [m EXCEPT !.renderer.clearcache = @ \/ (m.lcd.OBP1 # value),
                   !.lcd.OBP1 = value]
    ELSE IF i = \hFF4A THEN [m EXCEPT !.lcd.WY = value]
    ELSE IF i = \hFF4B THEN [m EXCEPT !.lcd.WX = value]
    ELSE [m EXCEPT !.ram.io_ports = Put(@, i - \hFF00, value)]

\* setitem_nonio1 with the switch following the last value written to 0xFF50
setitem_nonio1_follows(m, i, value) ==
    [m EXCEPT !.bootrom_enabled = IF i = \hFF50 THEN value # 1 ELSE @,
              !.ram.non_io_internal_ram1 = Put(@, i - \hFF4C, value)]

\* setitem, the second area unusable for I/O, with the boot ROM switch
setitem_nonio1(m, i, value) ==
    [m EXCEPT !.bootrom_enabled =
                  IF m.bootrom_enabled /\ i = \hFF50 /\ value = 1 THEN FALSE ELSE @,
              !.ram.non_io_internal_ram1 = Put(@, i - \hFF4C, value)]

\* value_in_range that lets 0x100 through
value_in_range_wide(value) == 0 <= value /\ value <= \h100

\* the assertion setitem starts with
value_in_range(value) == 0 <= value /\ value < \h100

setitem(m, i, value) ==
    IF m.exc # "none" THEN m
    ELSE IF ~value_in_range(value) THEN [m EXCEPT !.exc = "AssertionError"]
    ELSE IF 0 <= i /\ i < \h4000
    THEN [m EXCEPT !.cartridge = cartridge_setitem(@, i, value)]
    ELSE IF \h4000 <= i /\ i < \h8000
    THEN [m EXCEPT !.cartridge = cartridge_setitem(@, i, value)]
    ELSE IF \h8000 <= i /\ i < \hA000 THEN setitem_vram(m, i, value)
    ELSE IF \hA000 <= i /\ i < \hC000
    THEN [m EXCEPT !.cartridge = cartridge_setitem(@, i, value)]
    ELSE IF \hC000 <= i /\ i < \hE000
    THEN [m EXCEPT !.ram.internal_ram0 = Put(@, i - \hC000, value)]
    ELSE IF \hE000 <= i /\ i < \hFE00 THEN setitem_echo(m, i, value)
    ELSE IF \hFE00 <= i /\ i < \hFEA0
    THEN [m EXCEPT !.lcd.OAM = Put(@, i - \hFE00, value)]
    ELSE IF \hFEA0 <= i /\ i < \hFF00
    THEN [m EXCEPT !.ram.non_io_internal_ram0 = Put(@, i - \hFEA0, value)]
    ELSE IF \hFF00 <= i /\ i < \hFF4C THEN setitem_io(m, i, value)
    ELSE IF \hFF4C <= i /\ i < \hFF80 THEN setitem_nonio1(m, i, value)
    ELSE IF \hFF80 <= i /\ i < \hFFFF
    THEN [m EXCEPT !.ram.internal_ram1 = Put(@, i - \hFF80, value)]
    ELSE IF i = \hFFFF THEN [m EXCEPT !.cpu.interrupts_enabled_register = value]
    ELSE [m EXCEPT !.exc = "Exception"]

-----------------------------------------------------------------------------
(* Serial output and the input bridge *)

\* getserial that leaves the buffer as it is
getserial_keeps(m) == [m |-> m, b |-> m.serialbuffer]

\* Motherboard.getserial(): the machine afterwards and the string returned
getserial(m) == [m |-> [m EXCEPT !.serialbuffer = << >>], b |-> m.serialbuffer]

\* buttonevent that raises the interrupt at every key event
buttonevent_always(m, key) ==
    [m EXCEPT !.interaction = interaction_key_event(m.interaction, key).it,
              !.cpu = set_interruptflag(@, INTR_HIGHTOLOW)]

\* Motherboard.buttonevent(key)
buttonevent(m, key) ==
    LET r == interaction_key_event(m.interaction, key)
        m1 == [m EXCEPT !.interaction = r.it]
    IN  IF r.hitolo
        THEN [m1 EXCEPT !.cpu = set_interruptflag(@, INTR_HIGHTOLOW)]
        ELSE m1

\* sound.stop() and cartridge.stop()
sound_stop(s) == [s EXCEPT !.stopped = TRUE]

cartridge_stop(c) == [c EXCEPT !.stopped = TRUE]

\* Motherboard.stop(save)
stop(m, save) ==
    LET m1 == IF m.sound_enabled THEN [m EXCEPT !.sound = sound_stop(@)] ELSE m
    IN  IF save THEN [m1 EXCEPT !.cartridge = cartridge_stop(@)] ELSE m1

-----------------------------------------------------------------------------
(* Save and load.  A stream is a sequence of fields; a field is one byte   *)
(* (tag "byte") or the block one component writes about itself.            *)

ByteField(b) == [tag |-> "byte", val |-> b]

\* f.write(flag): a boolean is written as the byte 1 or 0
FlagByte(flag) == IF flag THEN 1 ELSE 0

\* the truth value Python gives a byte read back
Truthy(b) == b # 0

\* <component>.save_state(f)
component_save(m, tag) == [tag |-> tag, val |-> m[tag]]

\* Motherboard.save_state(f): the fields written, in order
save_state(m) ==
    << ByteField(STATE_VERSION), ByteField(FlagByte(m.bootrom_enabled)),
       component_save(m, "cpu"), component_save(m, "lcd") >>
    \o (IF m.sound_enabled THEN << component_save(m, "sound") >> ELSE << >>)
    \o << component_save(m, "renderer"), component_save(m, "ram"),
          component_save(m, "timer"), component_save(m, "cartridge") >>

\* the stream a machine m was saved to by the program as of state version
\* v: before version 2 the stream starts with the boot ROM flag, before
\* version 5 the interrupt enable register is a byte after the RAM (the CPU
\* block does not hold it), from version 5 there is a timer block and from
\* version 6 a sound block if sound is enabled
stream_of_version(m, v) ==
    (IF v >= 2
     THEN << ByteField(v), ByteField(FlagByte(m.bootrom_enabled)) >>
     ELSE << ByteField(FlagByte(m.bootrom_enabled)) >>)
    \o << IF v < 5
          THEN [tag |-> "cpu",
                val |-> [m.cpu EXCEPT !.interrupts_enabled_register = 0]]
          ELSE component_save(m, "cpu"),
          component_save(m, "lcd") >>
    \o (IF v >= 6 /\ m.sound_enabled THEN << component_save(m, "sound") >> ELSE << >>)
    \o (IF v >= 2 THEN << component_save(m, "renderer") >> ELSE << >>)
    \o << component_save(m, "ram") >>
    \o (IF v < 5 THEN << ByteField(m.cpu.interrupts_enabled_register) >> ELSE << >>)
    \o (IF v >= 5 THEN << component_save(m, "timer") >> ELSE << >>)
    \o << component_save(m, "cartridge") >>

\* <component>.load_state(f, state_version): the component takes the next
\* field of the stream, which must be a block of its own kind
component_load(st, tag) ==
    IF st.m.exc # "none" THEN st
    ELSE IF st.s # << >> /\ Head(st.s).tag = tag
    THEN [m |-> [st.m EXCEPT ![tag] = Head(st.s).val], s |-> Tail(st.s)]
    ELSE [st EXCEPT !.m.exc = "DecodeError"]

\* self.sound.load_state(f, state_version): the attribute sound exists only
\* on a machine built with sound_enabled
sound_load(st) ==
    IF st.m.exc # "none" THEN st
    ELSE IF ~st.m.sound_enabled THEN [st EXCEPT !.m.exc = "AttributeError"]
    ELSE component_load(st, "sound")

\* self.cpu.interrupts_enabled_register = f.read()
interrupt_enable_load(st) ==
    IF st.m.exc # "none" THEN st
    ELSE IF st.s # << >> /\ Head(st.s).tag = "byte"
    THEN [m |-> [st.m EXCEPT !.cpu.interrupts_enabled_register = Head(st.s).val],
          s |-> Tail(st.s)]
    ELSE [st EXCEPT !.m.exc = "DecodeError"]

\* the first two reads of load_state: the version and the boot ROM flag
bootrom_flag_load(m, s) ==
    LET state_version == Head(s).val
    IN  IF state_version >= 2
        THEN IF Tail(s) # << >> /\ Head(Tail(s)).tag = "byte"
             THEN [m |-> [m EXCEPT !.bootrom_enabled = Truthy(Head(Tail(s)).val)],
                   s |-> Tail(Tail(s))]
             ELSE [m |-> [m EXCEPT !.exc = "DecodeError"], s |-> Tail(s)]
        ELSE [m |-> [m EXCEPT !.bootrom_enabled = Truthy(state_version)],
              s |-> Tail(s)]

\* the end of load_state: the frame is rebuilt from the LCD's state
render_after_load(st) ==
    IF st.m.exc # "none" THEN st
    ELSE [st EXCEPT !.m.renderer.clearcache = TRUE,
                    !.m.renderer.render_screen_calls = @ + 1]

\* reads_timer that expects a timer block one version early
reads_timer_early(state_version) == state_version >= 4

\* the versions whose streams hold a timer block
reads_timer(state_version) == state_version >= 5

\* Motherboard.load_state(f) on a stream that starts with a byte: the
\* machine afterwards (with the exception raised, if any) and the fields
\* left unread
load_state(m, s) ==
    LET state_version == Head(s).val
        st1 == bootrom_flag_load(m, s)
        st2 == component_load(st1, "cpu")
        st3 == component_load(st2, "lcd")
        st4 == IF state_version >= 6 THEN sound_load(st3) ELSE st3
        st5 == IF state_version >= 2 THEN component_load(st4, "renderer") ELSE st4
        st6 == component_load(st5, "ram")
        st7 == IF state_version < 5 THEN interrupt_enable_load(st6) ELSE st6
        st8 == IF reads_timer(state_version) THEN component_load(st7, "timer") ELSE st7
        st9 == component_load(st8, "cartridge")
    IN  render_after_load(st9)

-----------------------------------------------------------------------------
(* Coordinator *)

\* breakpoint_match that takes bank 0 for ROM bank 0 whatever the boot ROM
breakpoint_match_boot_blind(m, bank, pc) ==
    /\ m.cpu.PC = pc
    /\ \/ (pc < \h4000 /\ bank = 0)
       \/ (\h4000 <= pc /\ pc < \h8000 /\ m.cartridge.rombank_selected = bank)
       \/ (\hA000 <= pc /\ pc < \hC000 /\ m.cartridge.rambank_selected = bank)
       \/ (pc < \h100 /\ bank = 0 - 1 /\ m.bootrom_enabled)

\* the condition of breakpoint_reached for one entry of breakpoints_list
breakpoint_match(m, bank, pc) ==
    /\ m.cpu.PC = pc
    /\ \/ (pc < \h4000 /\ bank = 0 /\ ~m.bootrom_enabled)
       \/ (\h4000 <= pc /\ pc < \h8000 /\ m.cartridge.rombank_selected = bank)
       \/ (\hA000 <= pc /\ pc < \hC000 /\ m.cartridge.rambank_selected = bank)
       \/ (pc < \h100 /\ bank = 0 - 1 /\ m.bootrom_enabled)

\* Motherboard.breakpoint_reached()
breakpoint_reached(m) ==
    \E k \in DOMAIN m.breakpoints_list :
        breakpoint_match(m, m.breakpoints_list[k][1], m.breakpoints_list[k][2])

\* Motherboard.add_breakpoint(bank, addr)
add_breakpoint(m, bank, addr) ==
    [m EXCEPT !.breakpoints_list = Append(@, <<bank, addr>>)]

\* Motherboard.remove_breakpoint(index), for an index of the list
remove_breakpoint(m, index) ==
    [m EXCEPT !.breakpoints_list =
                  SubSeq(@, 1, index) \o SubSeq(@, index + 2, Len(@))]

\* tick_loop_condition that lets a round run on an empty budget
tick_loop_condition_nonstrict(cycles_period) == cycles_period >= 0

\* the condition of the while loop of tick
tick_loop_condition(cycles_period) == cycles_period > 0

\* tick_breakpoint_return with the instruction's cycles already subtracted
tick_breakpoint_return_late(cycles_period, cycles) == cycles_period - cycles

\* what tick returns when a breakpoint is reached
tick_breakpoint_return(cycles_period, cycles) == cycles_period

\* tick_budget_left that forgets the round
tick_budget_left_kept(cycles_period, cycles) == cycles_period

\* cycles_period -= cycles
tick_budget_left(cycles_period, cycles) == cycles_period - cycles

\* halt_cycles that does not ask the LCD
halt_cycles_timer_only(cycles_period, timer_cti, lcd_cti) ==
    Min(timer_cti, cycles_period)

\* the cycles a halted CPU is fast-forwarded by
halt_cycles(cycles_period, timer_cti, lcd_cti) ==
    Min(lcd_cti, Min(timer_cti, cycles_period))

\* cpu.tick(): the CPU executes one instruction and is at pc afterwards
cpu_tick(c, pc) == [c EXCEPT !.PC = pc]

\* timer.tick(cycles), where the timer advances DIV by div and reports
\* whether TIMA overflowed
timer_tick(t, cycles, overflow, div) ==
    [t EXCEPT !.DIV = (@ + div) % \h100,
              !.TIMA = IF overflow THEN t.TMA ELSE @]

\* the timer counts only while bit 2 of TAC is set
timer_enabled(t) == (t.TAC \div 4) % 2 = 1

\* the body of the loop of tick after the breakpoint check: the peripherals
\* are advanced by cycles
tick_peripherals(m, cycles, overflow, div, lcd_interrupt) ==
    LET m1 == IF m.sound_enabled
              THEN [m EXCEPT !.sound.clock = @ + cycles]
              ELSE m
        m2 == [m1 EXCEPT !.timer = timer_tick(@, cycles, overflow, div)]
        m3 == IF overflow
              THEN [m2 EXCEPT !.cpu = set_interruptflag(@, INTR_TIMER)]
              ELSE m2
    IN  IF lcd_interrupt # 0
        THEN [m3 EXCEPT !.cpu = set_interruptflag(@, lcd_interrupt)]
        ELSE m3

\* the end of tick: sound.sync()
tick_exit(m) ==
    IF m.sound_enabled THEN [m EXCEPT !.sound.syncs = @ + 1] ELSE m

-----------------------------------------------------------------------------
(* Inputs of the operations *)

\* bus writes of the host and of the CPU's instructions
WriteCases ==
    { <<\hFF50, 1>>, <<\hFF50, 0>>, <<\hFF01, 72>>, <<\hFF01, 105>>,
      <<\hC000, 7>>, <<\hFF46, \hC0>>, <<\hFF07, \hFF>>, <<\hFF10, 6>> }

Budgets == {0, 4, 8}

\* what cpu.tick() may return, and where it may leave PC
CpuCycles == {4, 8, HALTED}
PCs == {\h40, \h150}

\* what lcd.tick() may return
LcdInterrupts == {0, INTR_VBLANK}

\* what timer.cyclestointerrupt() and lcd.cyclestointerrupt() may return
CyclesToInterrupt == {4, \h10000}

Keys == {"press_a", "release_a"}

-----------------------------------------------------------------------------
(* The state after construction *)

NoReturn == [op |-> "none", a |-> 0, v |-> 0, val |-> 0, why |-> "", exc |-> "none"]

Idle == [pos |-> "idle", cycles_period |-> 0, budget |-> 0, spent |-> 0]

\* no round of the loop of tick looked at yet
NoRound == [cycles |-> 0, timer_cti |-> 0, lcd_cti |-> 0, div |-> 0, before |-> 0]

\* nothing written, returned or executed yet; saved is the machine as it
\* was when save_state was last called
InitHist(m) ==
    [ written |-> << >>, drained |-> << >>, cpu_cycles |-> 0, cpu_steps |-> 0,
      timer_cycles |-> 0, lcd_cycles |-> 0, sound_cycles |-> 0, spent |-> 0,
      ff50 |-> FALSE, saved |-> m, round |-> NoRound ]

\* the machine as __init__ leaves it, for either value of sound_enabled;
\* breakpoints_enabled is a public field the host may clear before it runs
Init ==
    /\ \E snd \in BOOLEAN, bp \in BOOLEAN : mb = InitMB(snd, bp)
    /\ f = << >>
    /\ tk = Idle
    /\ ret = NoReturn
    /\ hist = InitHist(mb)
    /\ ops = 0

-----------------------------------------------------------------------------
(* Operations *)

\* an operation returns: an exception it raised is handed to the caller
Returned(m) == [m EXCEPT !.exc = "none"]

\* setitem(a, v) called by the host or by an instruction of the CPU
Write(a, v) ==
    LET m == setitem(mb, a, v)
    IN  /\ mb' = Returned(m)
        /\ ret' = [NoReturn EXCEPT !.op = "write", !.a = a, !.v = v, !.exc = m.exc]
        /\ hist' = [hist EXCEPT
               !.written = IF a = \hFF01 /\ m.exc = "none" THEN Append(@, v) ELSE @,
               !.ff50 = @ \/ (a = \hFF50 /\ v = 1 /\ m.exc = "none")]
        /\ UNCHANGED <<f, tk>>

\* getitem(a)
Read(a) ==
    /\ ret' = [NoReturn EXCEPT !.op = "read", !.a = a,
                 !.val = IF InBus(a) THEN getitem(mb, a) ELSE 0,
                 !.exc = IF InBus(a) THEN "none" ELSE "IndexError"]
    /\ UNCHANGED <<mb, f, tk, hist>>

GetSerial ==
    /\ tk.pos = "idle" /\ ops < MaxOps
    /\ LET r == getserial(mb)
       IN  /\ mb' = r.m
           /\ ret' = [NoReturn EXCEPT !.op = "getserial", !.val = r.b]
           /\ hist' = [hist EXCEPT !.drained = @ \o r.b]
    /\ ops' = ops + 1
    /\ UNCHANGED <<f, tk>>

\* buttonevent(key)
Press(key) ==
    /\ mb' = buttonevent(mb, key)
    /\ ret' = [NoReturn EXCEPT !.op = "buttonevent", !.why = key]
    /\ UNCHANGED <<f, tk, hist>>

ButtonEvent ==
    /\ tk.pos = "idle" /\ ops < MaxOps
    /\ \E key \in Keys : Press(key)
    /\ ops' = ops + 1

SaveState ==
    /\ tk.pos = "idle" /\ ops < MaxOps
    /\ f' = save_state(mb)
    /\ ret' = [NoReturn EXCEPT !.op = "save_state"]
    /\ hist' = [hist EXCEPT !.saved = mb]
    /\ ops' = ops + 1
    /\ UNCHANGED <<mb, tk>>

LoadState ==
    /\ tk.pos = "idle" /\ ops < MaxOps
    /\ f # << >>
    /\ LET st == load_state(mb, f)
       IN  /\ mb' = Returned(st.m)
           /\ ret' = [NoReturn EXCEPT !.op = "load_state", !.val = Len(st.s),
                                      !.exc = st.m.exc]
    /\ ops' = ops + 1
    /\ UNCHANGED <<f, tk, hist>>

Stop ==
    /\ tk.pos = "idle" /\ ops < MaxOps
    /\ \E save \in BOOLEAN :
           /\ mb' = stop(mb, save)
           /\ ret' = [NoReturn EXCEPT !.op = "stop", !.why = IF save THEN "save" ELSE ""]
    /\ ops' = ops + 1
    /\ UNCHANGED <<f, tk, hist>>

HostWrite ==
    /\ tk.pos = "idle" /\ ops < MaxOps
    /\ \E c \in WriteCases : Write(c[1], c[2])
    /\ ops' = ops + 1

\* tick(budget) is called: the loop is entered, or tick returns at once
TickEnter(budget) ==
    /\ IF tick_loop_condition(budget)
       THEN /\ tk' = [pos |-> "loop", cycles_period |-> budget,
                      budget |-> budget, spent |-> 0]
            /\ ret' = [NoReturn EXCEPT !.op = "tick", !.a = budget,
                                       !.why = "running"]
            /\ mb' = mb
       ELSE /\ tk' = [Idle EXCEPT !.budget = budget]
            /\ ret' = [NoReturn EXCEPT !.op = "tick", !.a = budget,
                                       !.val = budget, !.why = "budget"]
            /\ mb' = tick_exit(mb)
    /\ UNCHANGED <<f, hist>>

TickCall ==
    /\ tk.pos = "idle" /\ ops < MaxOps
    /\ \E budget \in Budgets : TickEnter(budget)
    /\ ops' = ops + 1

\* one round of the loop of tick, and the return from tick if it is the
\* last, for one choice of what the peripherals return: cpu.tick() returns
\* cycles and leaves PC at pc, timer.tick() advances DIV by div and reports
\* overflow, lcd.tick() returns lcd_interrupt, and the two cyclestointerrupt()
\* return timer_cti and lcd_cti; round is what the history keeps of the round
TickBody(cycles, pc, overflow, div, lcd_interrupt, timer_cti, lcd_cti, round) ==
    LET m1 == [mb EXCEPT !.cpu = cpu_tick(@, pc)]
        elapsed == IF cycles = HALTED
                   THEN halt_cycles(tk.cycles_period, timer_cti, lcd_cti)
                   ELSE cycles
        m2 == tick_peripherals(m1, elapsed, overflow, div, lcd_interrupt)
        left == tick_budget_left(tk.cycles_period, elapsed)
    IN  IF m1.breakpoints_enabled /\ breakpoint_reached(m1)
        THEN /\ mb' = m1
             /\ tk' = [tk EXCEPT !.pos = "idle"]
             /\ ret' = [NoReturn EXCEPT !.op = "tick", !.a = tk.budget,
                          !.val = tick_breakpoint_return(tk.cycles_period, cycles),
                          !.why = "breakpoint"]
             /\ hist' = [hist EXCEPT
                    !.cpu_steps = @ + 1,
                    !.cpu_cycles = @ + (IF cycles = HALTED THEN 0 ELSE cycles),
                    !.round = round]
        ELSE /\ hist' = [hist EXCEPT
                    !.cpu_steps = @ + 1,
                    !.cpu_cycles = @ + elapsed,
                    !.timer_cycles = @ + elapsed,
                    !.lcd_cycles = @ + elapsed,
                    !.sound_cycles = @ + (IF mb.sound_enabled THEN elapsed ELSE 0),
                    !.spent = @ + elapsed,
                    !.round = round]
             /\ IF tick_loop_condition(left)
                THEN /\ mb' = m2
                     /\ tk' = [tk EXCEPT !.cycles_period = left,
                                         !.spent = @ + elapsed]
                     /\ ret' = ret
                ELSE /\ mb' = tick_exit(m2)
                     /\ tk' = [tk EXCEPT !.pos = "idle", !.cycles_period = left,
                                         !.spent = @ + elapsed]
                     /\ ret' = [NoReturn EXCEPT !.op = "tick", !.a = tk.budget,
                                  !.val = left, !.why = "budget"]

TickIter ==
    /\ tk.pos = "loop"
    /\ \E cycles \in CpuCycles, pc \in PCs, overflow \in BOOLEAN,
          lcd_interrupt \in LcdInterrupts,
          timer_cti \in CyclesToInterrupt, lcd_cti \in CyclesToInterrupt :
        /\ overflow => timer_enabled(mb.timer)
        /\ cycles # HALTED => (timer_cti = 4 /\ lcd_cti = 4)
        /\ TickBody(cycles, pc, overflow, 0, lcd_interrupt, timer_cti, lcd_cti,
                    hist.round)
    /\ UNCHANGED <<f, ops>>

Next ==
    \/ HostWrite
    \/ GetSerial
    \/ ButtonEvent
    \/ SaveState
    \/ LoadState
    \/ Stop
    \/ TickCall
    \/ TickIter

Spec == Init /\ [][Next]_vars

-----------------------------------------------------------------------------
(* The bus alone: a few writes that set the machine up, then one read or   *)
(* one write at any of the addresses that bound or single out a region.    *)

SetupCases ==
    { <<\hC000, 7>>, <<\hC09F, 9>>, <<\hE000, 11>>, <<\h8000, 5>>, <<\hA000, 3>>,
      <<\h2000, 2>>, <<\hFF50, 1>>, <<\hFF50, 0>>, <<\hFF07, \hFF>>,
      <<\hFE01, 13>> }

ProbeAddrs ==
    { \h0000, \h00FF, \h0100, \h2000, \h3FFF, \h4000, \h7FFF,
      \h8000, \h97FF, \h9800, \h9FFF, \hA000, \hBFFF,
      \hC000, \hC09F, \hDDFF, \hDE00, \hDFFF, \hE000, \hE09F, \hFDFF,
      \hFE00, \hFE9F, \hFEA0, \hFEFF,
      \hFF00, \hFF01, \hFF02, \hFF03, \hFF04, \hFF05, \hFF06, \hFF07, \hFF08,
      \hFF0E, \hFF0F, \hFF10, \hFF3F, \hFF40, \hFF41, \hFF42, \hFF43, \hFF44,
      \hFF45, \hFF46, \hFF47, \hFF48, \hFF49, \hFF4A, \hFF4B,
      \hFF4C, \hFF50, \hFF7F, \hFF80, \hFFFE, \hFFFF }

ProbeValues == {0, 1, \hFF}

\* source bytes of a DMA, from every region below the echo
DmaSources == {\h00, \h01, \h3F, \h40, \h7F, \h80, \h9F, \hA0, \hBF, \hC0, \hDF}

SetupWrite ==
    /\ ops < MaxSetup
    /\ \E c \in SetupCases : Write(c[1], c[2])
    /\ ops' = ops + 1

ProbeWrite ==
    /\ ops <= MaxSetup
    /\ \E a \in ProbeAddrs, v \in ProbeValues : Write(a, v)
    /\ ops' = MaxSetup + 1

\* source bytes in the echo, in OAM itself and in the I/O registers
HighDmaSources == {\hE0, \hFD, \hFE, \hFF}

ProbeDMA ==
    /\ ops <= MaxSetup
    /\ \E src \in DmaSources \cup HighDmaSources : Write(\hFF46, src)
    /\ ops' = MaxSetup + 1

ProbeRead ==
    /\ ops <= MaxSetup
    /\ \E a \in ProbeAddrs : Read(a)
    /\ ops' = MaxSetup + 1

\* addresses off the bus and values that are not bytes
BadAddrs == {0 - 1, \h10000, \h1FF46}
BadValues == {0 - 1, \h100}

\* a write whose address or value (or both) is out of range
ProbeBadWrite ==
    /\ ops <= MaxSetup
    /\ \E a \in ProbeAddrs \cup BadAddrs, v \in ProbeValues \cup BadValues :
           /\ a \in BadAddrs \/ v \in BadValues
           /\ Write(a, v)
    /\ ops' = MaxSetup + 1

ProbeBadRead ==
    /\ ops <= MaxSetup
    /\ \E a \in BadAddrs : Read(a)
    /\ ops' = MaxSetup + 1

NextBus ==
    \/ SetupWrite
    \/ ProbeWrite
    \/ ProbeDMA
    \/ ProbeRead
    \/ ProbeBadWrite
    \/ ProbeBadRead

SpecBus == Init /\ [][NextBus]_vars

-----------------------------------------------------------------------------
(* Save and load alone: the machine is written to, saved, written to again *)
(* and then loaded from the stream of the saved machine in the format of   *)
(* any state version, the first one after STATE_VERSION included.          *)

StateVersions == 0 .. STATE_VERSION + 1

\* writes that change what each block of a stream holds
LoadSetupCases ==
    { <<\hFFFF, 5>>, <<\hFF06, 9>>, <<\hFF50, 1>>, <<\h8000, 5>>,
      <<\hFF42, 3>>, <<\hFF10, 6>>, <<\h2000, 2>> }

LoadSetupWrite ==
    /\ ops < MaxOps
    /\ \E c \in LoadSetupCases : Write(c[1], c[2])
    /\ ops' = ops + 1

\* load_state(f) on the stream of the machine last saved, as written by
\* the program of state version v
LoadVersion ==
    /\ ops <= MaxOps
    /\ \E v \in StateVersions :
           /\ v < 2 => v = FlagByte(hist.saved.bootrom_enabled)
           /\ LET s == stream_of_version(hist.saved, v)
                  st == load_state(mb, s)
              IN  /\ f' = s
                  /\ mb' = Returned(st.m)
                  /\ ret' = [NoReturn EXCEPT !.op = "load_state", !.a = v,
                                !.val = Len(st.s), !.exc = st.m.exc]
    /\ ops' = MaxOps + 1
    /\ UNCHANGED <<tk, hist>>

NextLoad ==
    \/ LoadSetupWrite
    \/ SaveState
    \/ LoadVersion

SpecLoad == Init /\ [][NextLoad]_vars

-----------------------------------------------------------------------------
(* The coordinator alone: the host sets the machine up (it switches the    *)
(* boot ROM off, selects banks, starts the timer, adds and removes         *)
(* breakpoints, presses buttons) and then calls tick once, with the CPU    *)
(* anywhere in the address space and the timer and the LCD at any distance *)
(* from their next interrupt.                                              *)

\* the boot ROM switch, the ROM bank selection and TAC
TickWriteCases == { <<\hFF50, 1>>, <<\h2000, 2>>, <<\hFF07, \hFF>> }

\* breakpoints in the boot ROM, in a ROM bank and a RAM bank, and in
\* regions that have no banks
BreakpointCases ==
    { <<0 - 1, \h40>>, <<2, \h4000>>, <<0, \hA000>>, <<0, \h8000>>, <<0, \hC000>> }

TickPCs == {\h40, \h150, \h4000, \h8000, \hA000, \hC000}

\* what timer.cyclestointerrupt() and lcd.cyclestointerrupt() may return to
\* a halted CPU: within the budget or far beyond it, either one the nearer
HaltCases ==
    { <<4, 6>>, <<6, 4>>, <<6, 6>>, <<4, \h10000>>, <<\h10000, 6>>,
      <<\h10000, \h10000>> }

\* what the peripherals return in one round of the loop of tick
Round(cycles, pc, overflow, div, lcd_interrupt, timer_cti, lcd_cti) ==
    [cycles |-> cycles, pc |-> pc, overflow |-> overflow, div |-> div,
     lcd_interrupt |-> lcd_interrupt, timer_cti |-> timer_cti, lcd_cti |-> lcd_cti]

\* an instruction ending at each of the addresses, a halted CPU at each of
\* the distances, a halted CPU at a breakpoint, an instruction longer than
\* the budget, a timer overflow and an LCD interrupt
RoundCases ==
    {Round(4, pc, FALSE, 0, 0, 4, 4) : pc \in TickPCs}
        \cup {Round(HALTED, \h150, FALSE, 0, 0, c[1], c[2]) : c \in HaltCases}
        \cup { Round(HALTED, \h40, FALSE, 0, 0, 4, 6),
               Round(12, \h150, FALSE, 0, 0, 4, 4),
               Round(4, \h150, TRUE, 1, 0, 4, 4),
               Round(HALTED, \h150, FALSE, 1, INTR_VBLANK, \h10000, 6) }

TickSetupWrite ==
    /\ ops < MaxSetup
    /\ \E c \in TickWriteCases : Write(c[1], c[2])
    /\ ops' = ops + 1

TickSetupButton ==
    /\ ops < MaxSetup
    /\ \E key \in Keys : Press(key)
    /\ ops' = ops + 1

AddBreakpoint ==
    /\ ops < MaxSetup
    /\ \E c \in BreakpointCases :
           /\ mb' = add_breakpoint(mb, c[1], c[2])
           /\ ret' = [NoReturn EXCEPT !.op = "add_breakpoint", !.a = c[2], !.v = c[1]]
    /\ ops' = ops + 1
    /\ UNCHANGED <<f, tk, hist>>

RemoveBreakpoint ==
    /\ ops < MaxSetup
    /\ \E index \in 0 .. Len(mb.breakpoints_list) - 1 :
           /\ mb' = remove_breakpoint(mb, index)
           /\ ret' = [NoReturn EXCEPT !.op = "remove_breakpoint", !.a = index]
    /\ ops' = ops + 1
    /\ UNCHANGED <<f, tk, hist>>

\* the one call of tick
TickProbe ==
    /\ tk.pos = "idle" /\ ops <= MaxSetup
    /\ \E budget \in Budgets : TickEnter(budget)
    /\ ops' = MaxSetup + 1

TickRound ==
    /\ tk.pos = "loop"
    /\ \E c \in RoundCases :
        /\ c.overflow => timer_enabled(mb.timer)
        /\ TickBody(c.cycles, c.pc, c.overflow, c.div, c.lcd_interrupt,
                    c.timer_cti, c.lcd_cti,
                    [cycles |-> c.cycles, timer_cti |-> c.timer_cti,
                     lcd_cti |-> c.lcd_cti, div |-> c.div,
                     before |-> tk.cycles_period])
    /\ UNCHANGED <<f, ops>>

NextTick ==
    \/ TickSetupWrite
    \/ TickSetupButton
    \/ AddBreakpoint
    \/ RemoveBreakpoint
    \/ TickProbe
    \/ TickRound

SpecTick == Init /\ [][NextTick]_vars

\* tick runs: a round of its loop that can be taken is taken
SpecTickLive == SpecTick /\ WF_vars(TickRound)

-----------------------------------------------------------------------------
(* Claims *)

\* a step that starts the host operation op
Starts(op) == ops' # ops /\ ret'.op = op

\* C1 as stated: once bootrom_enabled is false it is never true again, over
\* any sequence of operations of the machine.
C1_NeverEnabledAgain == [][~mb.bootrom_enabled => ~mb'.bootrom_enabled]_vars

\* C1, amended: once bootrom_enabled is false, no bus write, DMA, tick,
\* button event, getserial or save_state makes it true again; the only step
\* that does is a load_state of a stream whose boot ROM flag byte is not 0.
C1_EnabledAgainOnlyByLoad ==
    [][(~mb.bootrom_enabled /\ mb'.bootrom_enabled)
          => (Starts("load_state") /\ Len(f) >= 2 /\ f[2].val # 0)]_vars

\* the boot ROM was switched off by a write, and a load_state of a stream
\* saved after that has left it off
C1_Witness ==
    /\ hist.ff50 /\ ~mb.bootrom_enabled
    /\ ret.op = "load_state" /\ f[2].val = 0

\* the components save_state writes, as they are in machine m; the renderer
\* is compared without the two fields load_state sets after it has loaded
SavedParts(m) ==
    [ bootrom_enabled |-> m.bootrom_enabled, cpu |-> m.cpu, lcd |-> m.lcd,
      sound |-> m.sound, tiles_changed |-> m.renderer.tiles_changed,
      ram |-> m.ram, timer |-> m.timer, cartridge |-> m.cartridge ]

\* C2: a load_state of the stream save_state wrote completes without error,
\* reads every field that was written, and leaves bootrom_enabled and every
\* component as they were when the stream was saved, with sound enabled and
\* with sound disabled.
C2_SaveLoadRoundTrip ==
    ret.op = "load_state" =>
        /\ ret.exc = "none"
        /\ ret.val = 0
        /\ SavedParts(mb) = SavedParts(hist.saved)

\* C3: tick returns a value <= 0 when the budget ran out and a value > 0
\* only at a breakpoint reached after a CPU step with breakpoints enabled;
\* the value returned at a breakpoint is the budget less the cycles
\* subtracted in the rounds before the matching instruction.
C3_TickReturn ==
    (ret.op = "tick" /\ tk.pos = "idle") =>
        /\ ret.why = "budget" => ret.val <= 0
        /\ ret.val > 0 =>
               /\ ret.why = "breakpoint"
               /\ mb.breakpoints_enabled
               /\ \E k \in DOMAIN mb.breakpoints_list :
                      mb.breakpoints_list[k][2] = mb.cpu.PC
               /\ hist.cpu_steps > 0
        /\ ret.why = "breakpoint" =>
               /\ ret.val = tk.budget - tk.spent
               /\ ret.val > 0

\* tick has returned a positive value at a breakpoint in its second round
C3_Witness ==
    /\ ret.op = "tick" /\ tk.pos = "idle"
    /\ ret.why = "breakpoint" /\ ret.val = 4 /\ tk.budget = 8

\* C4: whenever tick has returned, the timer, the LCD and the sound clock
\* have been advanced by, and the budget reduced by, exactly the cycles of
\* the instructions the CPU has executed.
C4_PeripheralsInStep ==
    tk.pos = "idle" =>
        /\ hist.timer_cycles = hist.cpu_cycles
        /\ hist.lcd_cycles = hist.cpu_cycles
        /\ hist.spent = hist.cpu_cycles
        /\ mb.sound_enabled => hist.sound_cycles = hist.cpu_cycles

\* a step in which tick(0) is called
TickZero == Starts("tick") /\ ret'.a = 0

\* C5 as stated: tick(0) returns 0 and changes nothing, calls nothing.
C5_TickZeroNoEffect ==
    [][TickZero => (ret'.val = 0 /\ mb' = mb /\ hist' = hist /\ f' = f)]_vars

\* C5, amended: tick(0) returns 0 without a CPU step and without advancing
\* the timer, the LCD, the renderer or the sound clock and without changing
\* an interrupt flag; with sound disabled it changes nothing, with sound
\* enabled it calls sound.sync() once and changes nothing else.
C5_TickZeroOnlySync ==
    [][TickZero =>
          /\ ret'.val = 0 /\ ret'.why = "budget" /\ tk'.pos = "idle"
          /\ hist' = hist /\ f' = f
          /\ mb' = IF mb.sound_enabled
                   THEN [mb EXCEPT !.sound.syncs = @ + 1]
                   ELSE mb]_vars

\* tick(0) has returned on a machine with sound, after a tick that ran
C5_Witness ==
    /\ ret.op = "tick" /\ ret.a = 0 /\ ret.val = 0 /\ tk.pos = "idle"
    /\ mb.sound_enabled /\ hist.cpu_steps > 0

\* a step that writes v to address a
Writes(a, v) == Starts("write") /\ ret'.a = a /\ ret'.v = v

\* C6: after write(0xFF46, src) with src below 0xE0, OAM byte i reads as
\* (src << 8) + i read just before the write, for every i in 0..159.
C6_DMACopiesSource ==
    [][\A src \in 0 .. \hDF :
          Writes(\hFF46, src) =>
              \A i \in 0 .. \h9F :
                  getitem(mb', \hFE00 + i) = getitem(mb, src * \h100 + i)]_vars

\* a DMA from work RAM has copied the two bytes written there to the two
\* ends of OAM
C6_Witness ==
    /\ ret.op = "write" /\ ret.a = \hFF46 /\ ret.v = \hC0
    /\ getitem(mb, \hFE00) = 7 /\ getitem(mb, \hFE9F) = 9

\* the work RAM addresses that have an echo and are worth comparing: the
\* ends of the range and every cell that holds a byte other than 0
EchoedAddrs(m) ==
    {\hC000, \hC09F, \hDDFF}
        \cup {\hC000 + j : j \in {k \in DOMAIN m.ram.internal_ram0 : k < \h1E00}}

\* C7: read(a) = read(a + 0x2000) for every a in [0xC000, 0xDE00) in every
\* reachable state, and a write to an echo address changes the work RAM
\* byte it echoes and nothing else.
C7_EchoMirrorsWorkRam ==
    /\ [](\A a \in EchoedAddrs(mb) : getitem(mb, a) = getitem(mb, a + \h2000))
    /\ [][\A a \in ProbeAddrs, v \in ProbeValues :
             (Writes(a, v) /\ \hE000 <= a /\ a < \hFE00) =>
                 /\ Get(mb'.ram.internal_ram0, a - \hE000) = v
                 /\ \A j \in (DOMAIN mb.ram.internal_ram0
                                 \cup DOMAIN mb'.ram.internal_ram0) \ {a - \hE000} :
                        Get(mb'.ram.internal_ram0, j) = Get(mb.ram.internal_ram0, j)
                 /\ mb' = [mb EXCEPT !.ram.internal_ram0 = mb'.ram.internal_ram0]]_vars

\* work RAM holds bytes written through both windows, and the last write
\* went through the echo
C7_Witness ==
    /\ ret.op = "write" /\ ret.a = \hFDFF /\ ret.v = \hFF
    /\ getitem(mb, \hDDFF) = \hFF /\ getitem(mb, \hE09F) = 9

\* the regions for which C8 gives the byte read back after a write
ReadsBackWritten(a) ==
    \/ \hC000 <= a /\ a < \hFF00
    \/ \hFF4C <= a /\ a <= \hFFFF
    \/ a \in {\hFF01, \hFF02, \hFF03, \hFF05, \hFF06, \hFF08, \hFF0E, \hFF0F}

\* the address whose store a write to a changes: the work RAM address for
\* an echo address, a itself elsewhere
Echoed(a) == IF \hE000 <= a /\ a < \hFE00 THEN a - \h2000 ELSE a

\* C8: write(a, v) then read(a) gives v in work RAM, echo, OAM, both areas
\* unusable for I/O, high RAM, 0xFFFF, 0xFF0F, TIMA, TMA and the mirrored
\* I/O bytes, v & 7 at 0xFF07 and 0 at 0xFF46; the write goes to the one
\* store the read comes from, so that (DMA and the boot ROM switch apart)
\* no other address reads differently after it.
C8_WriteThenRead ==
    [][\A a \in ProbeAddrs, v \in ProbeValues :
          Writes(a, v) =>
              /\ ret'.exc = "none"
              /\ ReadsBackWritten(a) => getitem(mb', a) = v
              /\ a = \hFF07 => getitem(mb', a) = v % 8
              /\ a = \hFF46 => getitem(mb', a) = 0
              /\ (ReadsBackWritten(a) \/ a = \hFF07) /\ ~(a = \hFF50 /\ v = 1) =>
                     \A b \in ProbeAddrs :
                         Echoed(b) # Echoed(a) => getitem(mb', b) = getitem(mb, b)]_vars

\* 0xFF has been written to TAC, and 7 is read back
C8_Witness ==
    /\ ret.op = "write" /\ ret.a = \hFF07 /\ ret.v = \hFF
    /\ getitem(mb, \hFF07) = 7

\* C9: below 0x100 the bus reads the boot ROM exactly while
\* bootrom_enabled, the cartridge otherwise; from 0x100 to 0x3FFF always
\* the cartridge; once 1 was written to 0xFF50 address 0 reads the
\* cartridge whatever is written to 0xFF50 later; and a write of another
\* value to 0xFF50 does not switch the boot ROM off.
C9_BootRomShadow ==
    /\ [](/\ \A a \in {b \in ProbeAddrs : b < \h4000} :
                getitem(mb, a) = IF a < \h100 /\ mb.bootrom_enabled
                                 THEN BootByte(a)
                                 ELSE RomByte(0, a)
          /\ hist.ff50 => getitem(mb, 0) = RomByte(0, 0))
    /\ [][\A v \in ProbeValues \ {1} :
             Writes(\hFF50, v) => mb'.bootrom_enabled = mb.bootrom_enabled]_vars

\* 1 was written to 0xFF50, then another value, and address 0 reads the
\* cartridge's byte
C9_Witness ==
    /\ hist.ff50 /\ ret.op = "write" /\ ret.a = \hFF50 /\ ret.v = 0
    /\ getitem(mb, 0) = RomByte(0, 0) /\ getitem(mb, 0) # BootByte(0)

\* C10: getserial returns the bytes written to 0xFF01 since the last
\* getserial, in order, and empties the buffer: what was returned so far
\* followed by what is buffered is what was written, and a getserial with
\* nothing written since the last one returns the empty string.
C10_SerialDrains ==
    /\ [](/\ hist.drained \o mb.serialbuffer = hist.written
          /\ ret.op = "getserial" => mb.serialbuffer = << >>)
    /\ [][Starts("getserial") =>
             /\ ret'.val = mb.serialbuffer
             /\ hist.drained \o ret'.val = hist.written
             /\ (ret.op = "getserial" => ret'.val = << >>)]_vars

\* 'H' and 'i' were written and a getserial has returned "Hi"
C10_Witness ==
    /\ ret.op = "getserial" /\ ret.val = <<72, 105>>
    /\ mb.serialbuffer = << >> /\ hist.written = <<72, 105>>

\* C11: a read of an address outside [0, 0x10000) raises IndexError and a
\* write to one raises Exception (the bus violation); a write of a value
\* outside [0, 0x100) raises AssertionError (the invalid write) at every
\* address, on or off the bus; a failing read or write changes nothing; and
\* a read or write with address and value in range does not fail.
C11_BusErrors ==
    [][/\ Starts("write") =>
              /\ ret'.exc = IF ~(0 <= ret'.v /\ ret'.v < \h100) THEN "AssertionError"
                            ELSE IF ~(0 <= ret'.a /\ ret'.a < \h10000) THEN "Exception"
                            ELSE "none"
              /\ ret'.exc # "none" => (mb' = mb /\ hist' = hist /\ f' = f)
       /\ Starts("read") =>
              /\ ret'.exc = IF ~(0 <= ret'.a /\ ret'.a < \h10000) THEN "IndexError"
                            ELSE "none"
              /\ mb' = mb /\ hist' = hist /\ f' = f]_vars

\* a write of 0x100 to an address off the bus has failed on the value, and
\* the byte written to work RAM before it is still there
C11_Witness ==
    /\ ret.op = "write" /\ ret.a = \h10000 /\ ret.v = \h100
    /\ ret.exc = "AssertionError" /\ getitem(mb, \hC000) = 7

\* C12: load_state on a stream whose version is greater than STATE_VERSION
\* fails with a StateVersionMismatch error.
C12_VersionMismatch ==
    (ret.op = "load_state" /\ ret.a > STATE_VERSION) =>
        ret.exc = "StateVersionMismatch"

\* a step of tick: the call, or a round of its loop
TickStep == Starts("tick") \/ tk.pos = "loop"

\* C13: on a machine with sound_enabled false, every address in
\* 0xFF10..0xFF3F reads 0, a write of any byte to such an address returns
\* normally and leaves the whole machine (the I/O mirror included) as it
\* was, and no step of tick, stop or save_state changes the sound component
\* or writes a sound block.
C13_SoundDisabled ==
    /\ [](~mb.sound_enabled =>
             /\ \A a \in \hFF10 .. \hFF3F :
                    /\ getitem(mb, a) = 0
                    /\ \A v \in {0, 6, \hFF} : setitem(mb, a, v) = mb
             /\ \A k \in DOMAIN f : f[k].tag # "sound")
    /\ [][~mb.sound_enabled =>
             /\ (Starts("write") /\ \hFF10 <= ret'.a /\ ret'.a < \hFF40) =>
                    (mb' = mb /\ ret'.exc = "none")
             /\ (TickStep \/ Starts("stop") \/ Starts("save_state")) =>
                    (mb'.sound = mb.sound /\ ret'.exc = "none")]_vars

\* without sound: the machine was stopped, a tick has run and a byte has
\* been written to the first sound register
C13_Witness ==
    /\ ~mb.sound_enabled /\ mb.cartridge.stopped /\ hist.cpu_steps > 0
    /\ ret.op = "write" /\ ret.a = \hFF10 /\ ret.v = 6
    /\ getitem(mb, \hFF10) = 0

BreakpointReturn == tk.pos = "loop" /\ ret'.why = "breakpoint"

C16_HaltFastForward ==
    [][(tk.pos = "loop" /\ hist'.round.cycles = HALTED /\ ~BreakpointReturn) =>
          LET elapsed == tk.cycles_period - tk'.cycles_period
          IN  /\ elapsed <= tk.cycles_period
              /\ elapsed <= hist'.round.timer_cti
              /\ elapsed <= hist'.round.lcd_cti
              /\ elapsed \in {tk.cycles_period, hist'.round.timer_cti,
                              hist'.round.lcd_cti}
              /\ hist'.timer_cycles - hist.timer_cycles = elapsed
              /\ hist'.lcd_cycles - hist.lcd_cycles = elapsed
              /\ mb.sound_enabled => mb'.sound.clock - mb.sound.clock = elapsed
              /\ tk'.pos = "idle" => (ret'.why = "budget" /\ ret'.val = 0)]_vars

\* a halted CPU in tick(8) with the LCD interrupt 4 cycles and the timer
\* overflow 6 cycles away: the round took 4 cycles and the loop goes on
C16_Witness ==
    /\ tk.pos = "loop" /\ tk.budget = 8 /\ tk.cycles_period = 4
    /\ hist.round.cycles = HALTED /\ hist.round.before = 8
    /\ hist.round.timer_cti = 6 /\ hist.round.lcd_cti = 4
    /\ hist.lcd_cycles = 4

\* the breakpoint (bank, pc) matches in machine m, region by region
Matches(m, bank, pc) ==
    /\ m.cpu.PC = pc
    /\ IF pc < \h100
       THEN IF m.bootrom_enabled THEN bank = 0 - 1 ELSE bank = 0
       ELSE IF pc < \h4000 THEN bank = 0 /\ ~m.bootrom_enabled
       ELSE IF pc < \h8000 THEN bank = m.cartridge.rombank_selected
       ELSE IF pc < \hA000 THEN FALSE
       ELSE IF pc < \hC000 THEN bank = m.cartridge.rambank_selected
       ELSE FALSE

\* C17: a round of tick returns at a breakpoint exactly when breakpoints
\* are enabled and an entry (bank, pc) of the list has pc = cpu.PC after the
\* CPU's step and its bank is the one mapped at pc (0 below 0x4000 with the
\* boot ROM off, -1 below 0x100 with the boot ROM on, the selected ROM bank
\* in 0x4000..0x7FFF, the selected RAM bank in 0xA000..0xBFFF); so with the
\* boot ROM on tick does not stop at a breakpoint of bank 0 below 0x4000,
\* and it never stops with PC in 0x8000..0x9FFF or at 0xC000 and above.
C17_BreakpointMatch ==
    /\ [][tk.pos = "loop" =>
             (BreakpointReturn <=>
                  /\ mb'.breakpoints_enabled
                  /\ \E k \in DOMAIN mb'.breakpoints_list :
                         Matches(mb', mb'.breakpoints_list[k][1],
                                 mb'.breakpoints_list[k][2]))]_vars
    /\ []((ret.op = "tick" /\ ret.why = "breakpoint") =>
             /\ ~(\h8000 <= mb.cpu.PC /\ mb.cpu.PC < \hA000)
             /\ mb.cpu.PC < \hC000
             /\ (mb.bootrom_enabled /\ mb.cpu.PC < \h4000) =>
                    (mb.cpu.PC < \h100 /\ \E k \in DOMAIN mb.breakpoints_list :
                         mb.breakpoints_list[k] = <<0 - 1, mb.cpu.PC>>))

\* ROM bank 2 was selected and the breakpoint (2, 0x4000) added, and tick
\* has stopped at 0x4000 with the boot ROM still on
C17_Witness ==
    /\ ret.op = "tick" /\ ret.why = "breakpoint" /\ ret.val > 0
    /\ mb.cpu.PC = \h4000 /\ mb.cartridge.rombank_selected = 2
    /\ mb.bootrom_enabled
    /\ mb.breakpoints_list[4] = <<2, \h4000>>

\* the kinds of field a stream of version v holds, in order
ExpectedOrder(v) ==
    (IF v >= 2 THEN <<"byte", "byte">> ELSE <<"byte">>)
    \o <<"cpu", "lcd">>
    \o (IF v >= 6 THEN <<"sound">> ELSE << >>)
    \o (IF v >= 2 THEN <<"renderer">> ELSE << >>)
    \o <<"ram">>
    \o (IF v < 5 THEN <<"byte">> ELSE <<"timer">>)
    \o <<"cartridge">>

HiToLo(m) == (m.cpu.interrupts_flag_register \div INTR_HIGHTOLOW) % 2 = 1

\* C19: buttonevent(key) hands the key to the interaction component and
\* changes nothing else but the interrupt flag register: if the component
\* reports a high-to-low transition the register gets bit 16 set and keeps
\* its other bits, otherwise it is unchanged.  Between ticks nothing but a
\* load_state clears the bit (the host does not write to 0xFF0F here), and
\* the call of tick leaves the CPU's registers as they are, so the bit is
\* set in the state the first CPU step of the tick runs in.
C19_ButtonInterrupt ==
    [][/\ Starts("buttonevent") =>
              LET r == interaction_key_event(mb.interaction, ret'.why)
                  flags == mb.cpu.interrupts_flag_register
              IN  /\ mb'.interaction = r.it
                  /\ mb'.cpu.interrupts_flag_register =
                         IF r.hitolo
                         THEN (IF HiToLo(mb) THEN flags ELSE flags + INTR_HIGHTOLOW)
                         ELSE flags
                  /\ mb' = [mb EXCEPT
                               !.interaction = r.it,
                               !.cpu.interrupts_flag_register =
                                   mb'.cpu.interrupts_flag_register]
       /\ Starts("tick") => mb'.cpu = mb.cpu
       /\ (tk.pos = "idle" /\ HiToLo(mb) /\ ~Starts("load_state")) => HiToLo(mb')
       /\ (Starts("tick") /\ ret.op = "buttonevent" /\ HiToLo(mb) /\ tk'.pos = "loop")
              => (HiToLo(mb') /\ tk'.spent = 0)]_vars

\* a tick in which the LCD raised VBLANK has returned, button A was pressed,
\* which raised the interrupt and kept the VBLANK bit, and tick was called
\* again: its first CPU step finds both bits set
C19_Witness ==
    /\ ret.op = "tick" /\ tk.pos = "loop" /\ tk.spent = 0 /\ hist.cpu_steps > 0
    /\ mb.interaction.a_pressed
    /\ mb.cpu.interrupts_flag_register = INTR_HIGHTOLOW + INTR_VBLANK

\* C20: write(0xFF46, S) returns normally for every byte S, the sources in
\* the echo, in OAM and in the I/O registers included; afterwards OAM byte
\* i is what address S * 0x100 + i read just before, for every i in
\* 0..159; nothing but OAM has changed (not bootrom_enabled, the serial
\* buffer, the timer, the interrupt flags, the I/O mirror, tiles_changed or
\* clearcache); and 0xFF46 reads 0.
C20_DMAAnySource ==
    [][(Starts("write") /\ ret'.a = \hFF46 /\ ret'.v \in 0 .. \hFF) =>
          /\ ret'.exc = "none"
          /\ \A i \in 0 .. \h9F :
                 Get(mb'.lcd.OAM, i) = getitem(mb, ret'.v * \h100 + i)
          /\ mb' = [mb EXCEPT !.lcd.OAM = mb'.lcd.OAM]
          /\ hist' = hist /\ f' = f
          /\ getitem(mb', \hFF46) = 0]_vars

\* a DMA from 0xFF00 has copied the I/O registers as they read: TAC (7),
\* the DMA register itself (0) and the background palette (0xFC)
C20_Witness ==
    /\ ret.op = "write" /\ ret.a = \hFF46 /\ ret.v = \hFF /\ ret.exc = "none"
    /\ getitem(mb, \hFE07) = 7 /\ getitem(mb, \hFE46) = 0
    /\ getitem(mb, \hFE47) = \hFC /\ getitem(mb, \hFF07) = 7

====
